---- MODULE Spec2Model ----
(***************************************************************************)
(* Allocation Visualizer (src/src/App.jsx): the CSV ingestion pipeline     *)
(* (parseCsv, detectColumns, expandRows), the query functions              *)
(* (filteredRows, groupDimension, aggregate) and the session state of the  *)
(* App component (records, schema, filters, persisted slot, chart).        *)
(*                                                                         *)
(* JavaScript strings are TLA+ strings (sequences of characters).  A role  *)
(* key of the schema is a header name or null; headers are never empty, so *)
(* null is written "" (both are falsy in the code's tests).                *)
(***************************************************************************)
EXTENDS Integers, Sequences, FiniteSets, TLC

VARIABLES
    \* pipeline: one text buffer taken through parseCsv, detectColumns, expandRows
    pc, text, parsed, headerIdx, detected, expanded,
    \* query: one (records, schema, filters) input taken through filteredRows
    qIn, qOut,
    \* session: the App component's state and its collaborators
    dataRows, meta, filters, status, storage, chart, reading

vars == <<pc, text, parsed, headerIdx, detected, expanded, qIn, qOut,
          dataRows, meta, filters, status, storage, chart, reading>>

pipelineVars == <<pc, text, parsed, headerIdx, detected, expanded>>
queryVars == <<qIn, qOut>>
sessionVars == <<dataRows, meta, filters, status, storage, chart, reading>>

----------------------------------------------------------------------------
(* String primitives of the JavaScript runtime used by the code.           *)

\* s.substring(m - 1, n): positions m..n (1-based), clipped to the string
substring(s, m, n) ==
    LET hi == IF n < Len(s) THEN n ELSE Len(s)
    IN IF m < 1 \/ m > hi THEN "" ELSE SubSeq(s, m, hi)

\* s[i - 1]; "" stands for undefined past the end
Ch(s, i) == substring(s, i, i)
Drop(s, n) == substring(s, n + 1, Len(s))

Max(a, b) == IF a >= b THEN a ELSE b
Min(a, b) == IF a <= b THEN a ELSE b

Whitespace == {" ", "\t", "\n", "\r", "\f"}

RECURSIVE trimStart(_)
trimStart(s) ==
    IF Len(s) > 0 /\ Ch(s, 1) \in Whitespace THEN trimStart(Drop(s, 1)) ELSE s

RECURSIVE trimEnd(_)
trimEnd(s) ==
    IF Len(s) > 0 /\ Ch(s, Len(s)) \in Whitespace
    THEN trimEnd(substring(s, 1, Len(s) - 1))
    ELSE s

trim(s) == trimEnd(trimStart(s))

UpperCase == "ABCDEFGHIJKLMNOPQRSTUVWXYZ"
LowerCase == "abcdefghijklmnopqrstuvwxyz"
Digits == "0123456789"

UpperSet == {Ch(UpperCase, i) : i \in 1..Len(UpperCase)}
LowerSet == {Ch(LowerCase, i) : i \in 1..Len(LowerCase)}
DigitSet == {Ch(Digits, i) : i \in 1..Len(Digits)}

lowerOf == [c \in UpperSet |->
              Ch(LowerCase, CHOOSE i \in 1..Len(UpperCase) : Ch(UpperCase, i) = c)]

RECURSIVE toLowerCase(_)
toLowerCase(s) ==
    IF s = "" THEN ""
    ELSE (IF Ch(s, 1) \in UpperSet THEN lowerOf[Ch(s, 1)] ELSE Ch(s, 1))
         \o toLowerCase(Drop(s, 1))

\* /[A-Za-z]/.test(s)
hasAlpha(s) == \E i \in 1..Len(s) : Ch(s, i) \in UpperSet \cup LowerSet

\* s.includes(sub)
includes(s, sub) ==
    \E i \in 0..(Len(s) - Len(sub)) : substring(s, i + 1, i + Len(sub)) = sub

\* (s.match(/c/g) || []).length
RECURSIVE countCh(_, _)
countCh(s, c) ==
    IF s = "" THEN 0
    ELSE (IF Ch(s, 1) = c THEN 1 ELSE 0) + countCh(Drop(s, 1), c)

\* s.split(sep) for a one-character separator
RECURSIVE splitAcc(_, _, _)
splitAcc(s, sep, cur) ==
    IF s = "" THEN <<cur>>
    ELSE IF Ch(s, 1) = sep THEN <<cur>> \o splitAcc(Drop(s, 1), sep, "")
    ELSE splitAcc(Drop(s, 1), sep, cur \o Ch(s, 1))

split(s, sep) == splitAcc(s, sep, "")

\* s.replace(/\r\n/g, '\n')
RECURSIVE replaceCrLf(_)
replaceCrLf(s) ==
    IF s = "" THEN ""
    ELSE IF substring(s, 1, 2) = "\r\n" THEN "\n" \o replaceCrLf(Drop(s, 2))
    ELSE Ch(s, 1) \o replaceCrLf(Drop(s, 1))

\* s.replace(/c/g, '') for the characters of a set
RECURSIVE removeChars(_, _)
removeChars(s, cs) ==
    IF s = "" THEN ""
    ELSE (IF Ch(s, 1) \in cs THEN "" ELSE Ch(s, 1)) \o removeChars(Drop(s, 1), cs)

\* `${n}` for an integer n >= 0
RECURSIVE numToString(_)
numToString(n) ==
    IF n < 10 THEN Ch(Digits, n + 1)
    ELSE numToString(n \div 10) \o Ch(Digits, (n % 10) + 1)

\* Sequence helpers: array.filter, array.map, array.slice(from, to)
SelectIdx(n, P(_)) ==
    LET RECURSIVE from(_)
        from(i) == IF i > n THEN <<>>
                   ELSE (IF P(i) THEN <<i>> ELSE <<>>) \o from(i + 1)
    IN from(1)

Filter(seq, P(_)) ==
    LET idx == SelectIdx(Len(seq), LAMBDA i : P(seq[i]))
    IN [k \in 1..Len(idx) |-> seq[idx[k]]]

Map(seq, F(_)) == [i \in 1..Len(seq) |-> F(seq[i])]

\* array.slice(from, to) with 0-based bounds, to exclusive
slice(seq, from, to) == SubSeq(seq, from + 1, Min(to, Len(seq)))

Range(seq) == {seq[i] : i \in 1..Len(seq)}

\* array.find(...) || default, on the filtered array
firstOr(seq, default) == IF Len(seq) > 0 THEN seq[1] ELSE default

----------------------------------------------------------------------------
(* Tokenizer: parseCsv and its helpers.                                    *)

\* text.replace(/\r\n/g,'\n').split('\n').map(trimEnd).filter(l => l.trim() !== '')
textLines(t) ==
    Filter(Map(split(replaceCrLf(t), "\n"), trimEnd), LAMBDA l : trim(l) # "")

delimiterOf(firstLine) ==
    IF countCh(firstLine, "\t") > countCh(firstLine, ",") THEN "\t" ELSE ","

detectDelimiter(lines) ==
    delimiterOf(firstOr(Filter(lines, LAMBDA l : trim(l) # ""), ""))

\* The quote-aware loop of splitCsvLine: i is the 1-based position in line.
RECURSIVE splitQuoted(_, _, _, _, _)
splitQuoted(line, delimiter, i, current, inQuotes) ==
    IF i > Len(line) THEN <<current>>
    ELSE IF Ch(line, i) = "\""
         THEN IF inQuotes /\ Ch(line, i + 1) = "\""
              THEN splitQuoted(line, delimiter, i + 2, current \o "\"", inQuotes)
              ELSE splitQuoted(line, delimiter, i + 1, current, ~inQuotes)
    ELSE IF Ch(line, i) = delimiter /\ ~inQuotes
         THEN <<current>> \o splitQuoted(line, delimiter, i + 1, "", inQuotes)
    ELSE splitQuoted(line, delimiter, i + 1, current \o Ch(line, i), inQuotes)

splitCsvLine(line, delimiter) ==
    IF delimiter = "\t" THEN split(line, "\t")
    ELSE splitQuoted(line, delimiter, 1, "", FALSE)

\* Math.ceil(n * 0.3) for a cell count n
ceil03(n) == (3 * n + 9) \div 10

\* isHeaderRow taking any cell with a letter for a header
isHeaderRow_AnyLetter(cells) == \E k \in 1..Len(cells) : hasAlpha(cells[k])

isHeaderRow(cells) ==
    LET texty == Len(Filter(cells, hasAlpha))
    IN texty >= Max(2, ceil03(Len(cells)))

\* The header scan of parseCsv; i, headerIdx are 0-based as in the code.
RECURSIVE headerScan(_, _, _, _)
headerScan(allCells, i, hIdx, maxCols) ==
    IF i >= Len(allCells) THEN [headerIdx |-> hIdx, maxCols |-> maxCols]
    ELSE LET cells == allCells[i + 1] IN
         IF isHeaderRow(cells)
         THEN [headerIdx |-> i, maxCols |-> Len(cells)]
         ELSE IF Len(cells) > maxCols
              THEN headerScan(allCells, i + 1, i, Len(cells))
              ELSE headerScan(allCells, i + 1, hIdx, maxCols)

isBlankCells(cells) == \A k \in 1..Len(cells) : trim(cells[k]) = ""

\* sanitizeHeaders: used holds the lower-cased names already given out.
RECURSIVE uniqueName(_, _, _, _)
uniqueName(base, name, attempt, used) ==
    IF toLowerCase(name) \in used
    THEN uniqueName(base, base \o "_" \o numToString(attempt), attempt + 1, used)
    ELSE name

uniqueBase(base, used) == uniqueName(base, base, 1, used)

RECURSIVE sanitizeFrom(_, _, _)
sanitizeFrom(hs, idx, used) ==
    IF idx >= Len(hs) THEN <<>>
    ELSE LET name == uniqueBase(IF trim(hs[idx + 1]) # "" THEN trim(hs[idx + 1])
                                ELSE "col" \o numToString(idx + 1), used)
         IN <<name>> \o sanitizeFrom(hs, idx + 1, used \cup {toLowerCase(name)})

sanitizeHeaders(hs) == sanitizeFrom(hs, 0, {})

\* An object built by row[h] = value for each header.  Assigning a string to
\* the key "__proto__" of an object literal is ignored by the runtime (the
\* inherited setter accepts only objects and null), so it makes no own key.
ProtoKey == "__proto__"

cellAt(padded, idx) == IF idx <= Len(padded) THEN padded[idx] ELSE ""

rowObject(hs, padded) ==
    [h \in Range(hs) \ {ProtoKey} |->
        cellAt(padded, CHOOSE k \in 1..Len(hs) : hs[k] = h)]

\* String(row[key]): an own key gives its cell; the only header that is not
\* an own key is "__proto__", whose read gives Object.prototype.
cellOf(row, key) == IF key \in DOMAIN row THEN row[key] ELSE "[object Object]"

firstOrEmpty(seqs) == IF Len(seqs) > 0 THEN seqs[1] ELSE <<>>

\* The header repair: a first cell naming the branch over data rows one cell
\* wider gets an "Area" column put in front.
headerRepair(headerCells, firstDataCells) ==
    IF /\ headerCells[1] # ""
       /\ includes(toLowerCase(headerCells[1]), "branch")
       /\ Len(firstDataCells) = Len(headerCells) + 1
    THEN <<"Area">> \o headerCells
    ELSE headerCells

headerPad(headerCells, maxCols) ==
    IF Len(headerCells) < maxCols
    THEN headerCells \o [i \in 1..(maxCols - Len(headerCells)) |->
                            "col" \o numToString(Len(headerCells) + (i - 1) + 1)]
    ELSE headerCells

padTo(cells, n) == cells \o [k \in 1..(n - Len(cells)) |-> ""]

buildTable(headerCells, headers, dataCells, hIdx) ==
    [headers |-> headers,
     rows |-> Map(dataCells, LAMBDA c : rowObject(headers, padTo(c, Len(headers)))),
     rawHeaders |-> headerCells,
     headerIdx |-> hIdx]

parseScanned(allCells, scan, dataCells) ==
    LET headerCells ==
            headerPad(headerRepair(allCells[scan.headerIdx + 1], firstOrEmpty(dataCells)),
                      scan.maxCols)
    IN buildTable(headerCells, sanitizeHeaders(headerCells), dataCells, scan.headerIdx)

\* dataCells: the lines after the header row that are not blank in every cell
parseCells(allCells, scan) ==
    parseScanned(allCells, scan,
                 Filter(SubSeq(allCells, scan.headerIdx + 2, Len(allCells)),
                        LAMBDA c : ~isBlankCells(c)))

parseLines(lines, delimiter) ==
    IF Len(lines) = 0
    THEN [headers |-> <<>>, rows |-> <<>>, rawHeaders |-> <<>>, headerIdx |-> 0]
    ELSE LET allCells == Map(lines, LAMBDA l : splitCsvLine(l, delimiter))
         IN parseCells(allCells, headerScan(allCells, 0, 0, 0))

\* parseCsv with its local headerIdx kept beside the returned table
parseSteps(t) ==
    LET lines == textLines(t) IN parseLines(lines, detectDelimiter(lines))

parseCsv(t) ==
    LET p == parseSteps(t)
    IN [headers |-> p.headers, rows |-> p.rows, rawHeaders |-> p.rawHeaders]

----------------------------------------------------------------------------
(* JavaScript numbers.  A Number is a finite integer, +Infinity, -Infinity *)
(* or NaN; JSON null can stand where a number was written (see jsonNumber). *)
(* Number(s) is modelled for the literals [+-]digits and [+-]Infinity;     *)
(* fractions, exponents and radix prefixes do not occur in the inputs.     *)
(* -0 is identified with 0 (no expression of the code tells them apart).   *)

Fin(n) == [kind |-> "fin", v |-> n]
PosInf == [kind |-> "inf", v |-> 1]
NegInf == [kind |-> "inf", v |-> -1]
NaN == [kind |-> "nan", v |-> 0]
Null == [kind |-> "null", v |-> 0]

RECURSIVE digitsValue(_, _)
digitsValue(s, acc) ==
    IF s = "" THEN acc
    ELSE digitsValue(Drop(s, 1),
                     10 * acc + ((CHOOSE i \in 1..10 : Ch(Digits, i) = Ch(s, 1)) - 1))

allDigits(s) == s # "" /\ \A i \in 1..Len(s) : Ch(s, i) \in DigitSet

\* Number(s)
unsignedNumber(body, sign) ==
    IF body = "Infinity" THEN (IF sign = 1 THEN PosInf ELSE NegInf)
    ELSE IF allDigits(body) THEN Fin(sign * digitsValue(body, 0))
    ELSE NaN

trimmedNumber(t) ==
    IF t = "" THEN Fin(0)
    ELSE IF Ch(t, 1) = "-" THEN unsignedNumber(Drop(t, 1), -1)
    ELSE IF Ch(t, 1) = "+" THEN unsignedNumber(Drop(t, 1), 1)
    ELSE unsignedNumber(t, 1)

jsNumber(s) == trimmedNumber(trim(s))

\* ToNumber of a stored metric: null converts to 0
toNumber(x) == IF x.kind = "null" THEN Fin(0) ELSE x

\* a + b on Numbers (null operands convert to 0)
addNumbers(x, y) ==
       IF x.kind = "nan" \/ y.kind = "nan" THEN NaN
       ELSE IF x.kind = "inf" /\ y.kind = "inf"
            THEN (IF x.v = y.v THEN x ELSE NaN)
       ELSE IF x.kind = "inf" THEN x
       ELSE IF y.kind = "inf" THEN y
       ELSE Fin(x.v + y.v)

jsAdd(a, b) == addNumbers(toNumber(a), toNumber(b))

negate(y) == IF y.kind = "nan" THEN NaN ELSE [kind |-> y.kind, v |-> 0 - y.v]

\* a - b
jsSub(a, b) == jsAdd(a, negate(toNumber(b)))

\* Boolean(x) of a Number or null: 0, NaN and null are falsy
truthyNumber(x) == ~(x.kind \in {"nan", "null"} \/ x = Fin(0))

----------------------------------------------------------------------------
(* Schema Inferencer: detectColumns.                                       *)

NoKey == ""

defaultMeta ==
    [headers |-> <<>>, productKey |-> NoKey, branchKey |-> NoKey,
     areaKey |-> NoKey, itemKey |-> NoKey, metricKey |-> NoKey,
     productColumns |-> <<>>, syntheticProduct |-> FALSE,
     syntheticProductLabel |-> "All Products", rawHeaders |-> <<>>]

productNames == {"product", "item", "sku", "product name", "material", "pork bbq"}
branchNames == {"branch", "store", "location", "office"}
areaNames == {"area", "region", "zone", "territory"}
itemNames == {"item description", "item", "description", "item desc"}
metricNames == {"alloc", "average", "avg", "value", "amount", "metric", "qty",
                "quantity", "total", "sales", "volume", "pork bbq", "daily sales",
                "kg conversion per pc"}
fixedProducts == {"backribs", "chicken paa", "chicken pecho", "pork bbq", "spareribs"}
banned == {"sum", "avg", "average", "alloc", "allocation", "conversion", "target",
           "total", "uom", "branch", "area", "metric", "value", "amount", "qty",
           "quantity", "sales", "volume", "%", "kg"}

\* headers[lowerHeaders.findIndex(h => candidates.includes(h))], or null
findHeader(headers, candidates) ==
    firstOr(Filter(headers, LAMBDA h : toLowerCase(h) \in candidates), NoKey)

nonEmptyNumber(cleaned) == cleaned # "" /\ jsNumber(cleaned).kind # "nan"

looksNumeric(value) == nonEmptyNumber(trim(removeChars(value, {",", "%"})))

isProductish(h) == ~\E b \in banned : includes(toLowerCase(h), b)

\* syntheticProductLabel as the code computes it: productish || 'All Products',
\* then the metric key if that label is falsy
labelOr(label, finalMetricKey) ==
    IF label = "" /\ finalMetricKey # NoKey THEN finalMetricKey ELSE label

syntheticLabel(rawHeaders, finalMetricKey) ==
    labelOr(firstOr(Filter(Filter(Map(rawHeaders, trim), LAMBDA h : h # ""),
                           isProductish),
                    "All Products"),
            finalMetricKey)

numericHeadersOf(headers, rows) ==
    Filter(headers, LAMBDA h : \E i \in 1..Len(rows) : looksNumeric(cellOf(rows[i], h)))

\* The area fallback: with a branch column and no area column, a first column
\* that is not the branch column and holds more than 3 non-empty values, not
\* all numeric, is the area column.
sampleArea(firstHeader, branchKey, sampleValues) ==
    IF /\ firstHeader # branchKey
       /\ Len(sampleValues) > 3
       /\ ~(\A i \in 1..Len(sampleValues) : looksNumeric(sampleValues[i]))
    THEN firstHeader
    ELSE NoKey

areaKeyOf(headers, rows, branchKey, areaKey) ==
    IF areaKey = NoKey /\ branchKey # NoKey
    THEN sampleArea(headers[1], branchKey,
                    Filter(Map(rows, LAMBDA r : trim(cellOf(r, headers[1]))),
                           LAMBDA v : v # ""))
    ELSE areaKey

\* detectColumns with nothing reserved for the role keys
reservedOf_None(keys) == {}

reservedOf(keys) == {toLowerCase(h) : h \in keys \ {NoKey}}

productColumnsOf(headers, productColumns, fixedMatch) ==
    IF Len(fixedMatch) > 0 THEN fixedMatch
    ELSE IF Len(productColumns) = 0 /\ Len(headers) >= 3
         THEN LET sl == Filter(slice(headers, 2, Min(Len(headers), 7)),
                               LAMBDA h : trim(h) # "")
              IN IF Len(sl) > 0 THEN sl ELSE productColumns
         ELSE productColumns

finalMetricKeyOf(metricKey, productColumns) ==
    IF metricKey # NoKey THEN metricKey
    ELSE IF Len(productColumns) = 1 THEN productColumns[1] ELSE NoKey

detectResult(headers, rawHeaders, productKey, branchKey, areaKey, itemKey, finalMetricKey, productColumns) ==
    [headers |-> headers, productKey |-> productKey, branchKey |-> branchKey,
     areaKey |-> areaKey, itemKey |-> itemKey, metricKey |-> finalMetricKey,
     productColumns |-> productColumns,
     syntheticProduct |-> (productKey = NoKey /\ Len(productColumns) = 0),
     syntheticProductLabel |->
        IF productKey = NoKey /\ Len(productColumns) = 0
        THEN syntheticLabel(rawHeaders, finalMetricKey)
        ELSE "All Products",
     rawHeaders |-> rawHeaders]

detectProducts(headers, rawHeaders, productKey, branchKey, areaKey, itemKey, metricKey, productColumns) ==
    detectResult(headers, rawHeaders, productKey, branchKey, areaKey, itemKey,
                 finalMetricKeyOf(metricKey, productColumns), productColumns)

detectRoles(headers, rows, rawHeaders, productKey, branchKey, areaKey, itemKey) ==
    detectProducts(headers, rawHeaders, productKey, branchKey, areaKey, itemKey,
        findHeader(headers, metricNames),
        productColumnsOf(headers,
            Filter(numericHeadersOf(headers, rows), LAMBDA h :
                toLowerCase(h) \notin reservedOf({productKey, branchKey, areaKey, itemKey})),
            Filter(slice(headers, 2, 7), LAMBDA h : toLowerCase(h) \in fixedProducts)))

detectBranch(headers, rows, rawHeaders, branchKey) ==
    detectRoles(headers, rows, rawHeaders,
                findHeader(headers, productNames),
                branchKey,
                areaKeyOf(headers, rows, branchKey, findHeader(headers, areaNames)),
                findHeader(headers, itemNames))

detectColumns(headers, rows, rawHeaders) ==
    detectBranch(headers, rows, rawHeaders, findHeader(headers, branchNames))

----------------------------------------------------------------------------
(* Row Expander: expandRows and normalizeRow.                              *)

\* Number(String(val).replace(/,/g,'').replace(/%/g,'').trim()), NaN -> 0
nanToZero(n) == IF n.kind = "nan" THEN Fin(0) ELSE n

numeric(val) == nanToZero(jsNumber(trim(removeChars(val, {",", "%"}))))

\* key ? String(row[key] ?? '').trim() : ''
cleanText(row, key) == IF key # NoKey THEN trim(cellOf(row, key)) ELSE ""

normalizeRow(row, m) ==
       [product |-> IF m.productKey # NoKey THEN cleanText(row, m.productKey)
                    ELSE IF m.syntheticProductLabel # "" THEN m.syntheticProductLabel
                    ELSE "All Products",
        item |-> cleanText(row, m.itemKey),
        branch |-> cleanText(row, m.branchKey),
        area |-> cleanText(row, m.areaKey),
        metric |-> numeric(IF m.metricKey # NoKey THEN cellOf(row, m.metricKey) ELSE "0")]

RECURSIVE flatten(_)
flatten(seqs) == IF Len(seqs) = 0 THEN <<>> ELSE Head(seqs) \o flatten(Tail(seqs))

\* expandRows taking the long path whenever the schema has a productKey
expandRows_LongWhenKeyed(rows, m) ==
    IF Len(m.productColumns) > 0 /\ m.productKey = NoKey
    THEN flatten(Map(rows, LAMBDA row :
            Map(m.productColumns, LAMBDA col :
                [product |-> col,
                 item |-> cleanText(row, m.itemKey),
                 branch |-> cleanText(row, m.branchKey),
                 area |-> cleanText(row, m.areaKey),
                 metric |-> numeric(cellOf(row, col))])))
    ELSE Map(rows, LAMBDA r : normalizeRow(r, m))

expandRows(rows, m) ==
    IF Len(m.productColumns) > 0
    THEN flatten(Map(rows, LAMBDA row :
            Map(m.productColumns, LAMBDA col :
                [product |-> col,
                 item |-> cleanText(row, m.itemKey),
                 branch |-> cleanText(row, m.branchKey),
                 area |-> cleanText(row, m.areaKey),
                 metric |-> numeric(cellOf(row, col))])))
    ELSE Map(rows, LAMBDA r : normalizeRow(r, m))

----------------------------------------------------------------------------
(* Query functions: uniqueValues, the option lists, filteredRows,          *)
(* groupDimension and aggregate.                                           *)

NoFilter == "__all"

\* r[key] for the record fields the queries read
field(r, key) ==
    IF key = "branch" THEN r.branch ELSE IF key = "area" THEN r.area ELSE r.product

\* The UTF-16 code unit order of the characters, as Array.prototype.sort
\* without a comparator orders strings.
CodeOrder ==
    "\t\n\f\r !\"#$%&'()*+,-./0123456789:;<=>?@ABCDEFGHIJKLMNOPQRSTUVWXYZ[\\]^_abcdefghijklmnopqrstuvwxyz{|}~"

codeOf(c) == CHOOSE i \in 1..Len(CodeOrder) : Ch(CodeOrder, i) = c

RECURSIVE strLess(_, _)
strLess(a, b) ==
    IF b = "" THEN FALSE
    ELSE IF a = "" THEN TRUE
    ELSE IF Ch(a, 1) = Ch(b, 1) THEN strLess(Drop(a, 1), Drop(b, 1))
    ELSE codeOf(Ch(a, 1)) < codeOf(Ch(b, 1))

RECURSIVE sortStrings(_)
sortStrings(S) ==
    IF S = {} THEN <<>>
    ELSE LET least == CHOOSE x \in S : \A y \in S \ {x} : strLess(x, y)
         IN <<least>> \o sortStrings(S \ {least})

\* Array.from(new Set(rows.map(r => r[key]).filter(Boolean))).sort()
uniqueValues(rows, key) ==
    sortStrings({field(rows[i], key) : i \in 1..Len(rows)} \ {""})

productOptions(rows) == uniqueValues(rows, "product")

areaOptions(rows, m) ==
    IF m.areaKey # NoKey THEN uniqueValues(rows, "area") ELSE <<>>

branchOptions(rows, m, f) ==
    IF m.branchKey = NoKey THEN <<>>
    ELSE IF f.area = NoFilter \/ m.areaKey = NoKey THEN uniqueValues(rows, "branch")
    ELSE uniqueValues(Filter(rows, LAMBDA r : r.area = f.area), "branch")

\* the values of the group select
groupOptions(m) ==
    <<"product">> \o (IF m.branchKey # NoKey THEN <<"branch">> ELSE <<>>)
                  \o (IF m.areaKey # NoKey THEN <<"area">> ELSE <<>>)

\* The effect that puts the group back on an offered option.
groupEffect(m, f) ==
    IF f.group \in Range(groupOptions(m)) THEN f
    ELSE [f EXCEPT !.group = groupOptions(m)[1]]

\* filteredRows comparing branch and area whatever the schema's keys
filteredRows_KeysIgnored(rows, m, f) ==
    Filter(rows, LAMBDA row :
        /\ (f.product = NoFilter \/ row.product = f.product)
        /\ (f.branch = NoFilter \/ row.branch = f.branch)
        /\ (f.area = NoFilter \/ row.area = f.area))

filteredRows(rows, m, f) ==
    Filter(rows, LAMBDA row :
        /\ (f.product = NoFilter \/ row.product = f.product)
        /\ (m.branchKey = NoKey \/ f.branch = NoFilter \/ row.branch = f.branch)
        /\ (m.areaKey = NoKey \/ f.area = NoFilter \/ row.area = f.area))

\* groupDimension always the selected group
groupDimension_Selected(m, f) == IF f.group # "" THEN f.group ELSE "product"

groupDimension(m, f) ==
    IF m.branchKey # NoKey /\ f.branch # NoFilter THEN "product"
    ELSE IF f.group # "" THEN f.group
    ELSE "product"

\* r[key] || 'Unspecified'
labelOf(r, key) == IF field(r, key) # "" THEN field(r, key) ELSE "Unspecified"

\* totals.get(label) || 0, by the label's position in the Map (0: absent)
totalOrZero(totals, idx) ==
    IF idx > 0 /\ truthyNumber(totals[idx].value) THEN totals[idx].value ELSE Fin(0)

\* totals.set(label, (totals.get(label) || 0) + metric); a Map keeps its keys
\* in the order of their first insertion
totalsSet(totals, label, metric, idx) ==
    IF idx = 0
    THEN Append(totals, [label |-> label, value |-> jsAdd(Fin(0), metric)])
    ELSE [totals EXCEPT ![idx] = [label |-> label,
                                  value |-> jsAdd(totalOrZero(totals, idx), metric)]]

indexOfLabel(totals, label) ==
    firstOr(SelectIdx(Len(totals), LAMBDA i : totals[i].label = label), 0)

totalsAdd(totals, label, metric) ==
    totalsSet(totals, label, metric, indexOfLabel(totals, label))

RECURSIVE totalsOf(_, _, _)
totalsOf(rows, key, totals) ==
    IF Len(rows) = 0 THEN totals
    ELSE totalsOf(Tail(rows), key,
                  totalsAdd(totals, labelOf(Head(rows), key), Head(rows).metric))

\* The comparator (a, b) => b.value - a.value as sort reads it: the sign of
\* the difference, a NaN difference counting as 0.
signOf(d) ==
    IF d.kind = "nan" THEN 0
    ELSE IF d.v > 0 THEN 1 ELSE IF d.v < 0 THEN -1 ELSE 0

compareFn(a, b) == signOf(jsSub(b.value, a.value))

\* A consistent comparison function for the items: being equal and coming
\* before are transitive.
consistentComparator(items) ==
    \A i, j, k \in 1..Len(items) :
        /\ (compareFn(items[i], items[j]) = 0 /\ compareFn(items[j], items[k]) = 0)
              => compareFn(items[i], items[k]) = 0
        /\ (compareFn(items[i], items[j]) < 0 /\ compareFn(items[j], items[k]) < 0)
              => compareFn(items[i], items[k]) < 0

\* The stable sort: each item goes behind the items that do not come after it.
RECURSIVE insertSorted(_, _)
insertSorted(sorted, x) ==
    IF Len(sorted) = 0 \/ compareFn(sorted[Len(sorted)], x) <= 0
    THEN Append(sorted, x)
    ELSE Append(insertSorted(SubSeq(sorted, 1, Len(sorted) - 1), x), sorted[Len(sorted)])

RECURSIVE stableSort(_)
stableSort(items) ==
    IF Len(items) = 0 THEN <<>>
    ELSE insertSorted(stableSort(SubSeq(items, 1, Len(items) - 1)), items[Len(items)])

\* Array.prototype.sort: stable under a consistent comparator; under an
\* inconsistent one the order is implementation-defined, any permutation.
sortOutcomes(items) ==
    IF consistentComparator(items) THEN {stableSort(items)}
    ELSE {[i \in 1..Len(items) |-> items[p[i]]] : p \in Permutations(1..Len(items))}

\* aggregate(rows, dimension): the sequences of {label, value} it can return
aggregate(rows, dimension) ==
    sortOutcomes(totalsOf(rows,
                          IF dimension = "branch" THEN "branch"
                          ELSE IF dimension = "area" THEN "area" ELSE "product",
                          <<>>))

\* JSON.stringify then JSON.parse of the persisted object: a number that is
\* not finite is written as null
jsonNumber(n) == IF n.kind \in {"inf", "nan"} THEN Null ELSE n

jsonRecord(r) == [r EXCEPT !.metric = jsonNumber(r.metric)]

stringify(rows, m, f) == [rows |-> Map(rows, jsonRecord), meta |-> m, filters |-> f]

----------------------------------------------------------------------------
(* The ingestion pipeline on one text buffer, a step per function call of  *)
(* reader.onload: parseCsv, detectColumns, expandRows.  The text is a file *)
(* of up to MaxLines lines drawn from LinePool, joined by line feeds.      *)

MaxLines == 3

LinePool ==
    { "metadata,,", ",,", "1,2", "x,y\r",
      "Product,Branch,Value", "Widgets,East,10", "Branch,Qty",
      "Notes,Comments", "Qty,Total", "Sum,sum", "__proto__,a", "Store\tQty",
      "Area,Branch,Pork BBQ" }

RECURSIVE joinLines(_)
joinLines(ls) ==
    IF Len(ls) = 0 THEN ""
    ELSE IF Len(ls) = 1 THEN ls[1]
    ELSE ls[1] \o "\n" \o joinLines(Tail(ls))

Texts == {joinLines(ls) : ls \in UNION {[1..n -> LinePool] : n \in 0..MaxLines}}

emptyTable == [headers |-> <<>>, rows |-> <<>>, rawHeaders |-> <<>>]

\* The session as the App component constructs it (useState initial values),
\* with an empty persisted slot and no chart drawn yet.
initialFilters == [product |-> "__all", branch |-> "__all", area |-> "__all",
                   group |-> "product"]
initialStatus == [message |-> "Waiting for a CSV file.", isError |-> FALSE]
\* no Chart instance yet: the chart effect has run on an empty aggregate
noChart == [created |-> FALSE, labels |-> <<>>, data |-> <<>>, label |-> "",
            empty |-> TRUE]

SessionIdle ==
    /\ dataRows = <<>>
    /\ meta = defaultMeta
    /\ filters = initialFilters
    /\ status = initialStatus
    /\ storage = <<>>
    /\ chart = noChart
    /\ reading = {}

QueryIdle == qIn = <<>> /\ qOut = <<>>

PipelineIdle ==
    /\ pc = "idle"
    /\ text = ""
    /\ parsed = emptyTable
    /\ headerIdx = 0
    /\ detected = defaultMeta
    /\ expanded = <<>>

InitPipeline ==
    /\ pc = "text"
    /\ text \in Texts
    /\ parsed = emptyTable
    /\ headerIdx = 0
    /\ detected = defaultMeta
    /\ expanded = <<>>
    /\ QueryIdle
    /\ SessionIdle

Parse ==
    /\ pc = "text"
    /\ \E p \in {parseSteps(text)} :
          /\ parsed' = [headers |-> p.headers, rows |-> p.rows, rawHeaders |-> p.rawHeaders]
          /\ headerIdx' = p.headerIdx
    /\ pc' = "parsed"
    /\ UNCHANGED <<text, detected, expanded, queryVars, sessionVars>>

\* reader.onload calls detectColumns only on a table with rows
Detect ==
    /\ pc = "parsed"
    /\ Len(parsed.rows) > 0
    /\ detected' = detectColumns(parsed.headers, parsed.rows, parsed.rawHeaders)
    /\ pc' = "detected"
    /\ UNCHANGED <<text, parsed, headerIdx, expanded, queryVars, sessionVars>>

\* and expandRows only when a metric key or product columns were found
Expand ==
    /\ pc = "detected"
    /\ ~(detected.metricKey = NoKey /\ Len(detected.productColumns) = 0)
    /\ expanded' = expandRows(parsed.rows, detected)
    /\ pc' = "expanded"
    /\ UNCHANGED <<text, parsed, headerIdx, detected, queryVars, sessionVars>>

NextPipeline == Parse \/ Detect \/ Expand

SpecPipeline == InitPipeline /\ [][NextPipeline]_vars

----------------------------------------------------------------------------
(* filteredRows as a function of its inputs: a record list, the schema's   *)
(* branch and area keys and the filters, drawn from small sets.            *)

MaxRows == 2

QueryRecords ==
    [product : {"P", "Q"}, item : {""}, branch : {"", "East"}, area : {"", "North"},
     metric : {Fin(1)}]

QueryInputs ==
    [rows : UNION {[1..n -> QueryRecords] : n \in 0..MaxRows},
     meta : {[defaultMeta EXCEPT !.branchKey = b, !.areaKey = a] :
                b \in {NoKey, "Branch"}, a \in {NoKey, "Area"}},
     filters : [product : {NoFilter, "P"}, branch : {NoFilter, "East", "West"},
                area : {NoFilter, "North"}, group : {"product"}]]

InitQuery ==
    /\ qIn \in {<<q>> : q \in QueryInputs}
    /\ qOut = <<>>
    /\ PipelineIdle
    /\ SessionIdle

Query ==
    /\ Len(qIn) = 1
    /\ Len(qOut) = 0
    /\ qOut' = <<filteredRows(qIn[1].rows, qIn[1].meta, qIn[1].filters)>>
    /\ UNCHANGED <<qIn, pipelineVars, sessionVars>>

NextQuery == Query

SpecQuery == InitQuery /\ [][NextQuery]_vars

----------------------------------------------------------------------------
(* The App session: the component's state, the persisted slot, the chart   *)
(* and the file reads in flight.  Each action is a handler together with   *)
(* the render and the effects that follow it.                              *)

Files ==
    { "Area,Branch,Backribs,Spareribs\nN,East,10,5\nN,West,5,10\nS,,2,3",
      "Branch,Qty\nA,1\nX,Infinity\nX,-Infinity\nB,2",
      "Branch,Qty\nY,Infinity\nY,-Infinity\nY,5",
      "Notes,Comments\nx,y",
      "Notes,Comments" }

\* the file reads in flight at one time
MaxPending == 2

\* The persist effect: the slot is removed without records, else rewritten.
persist(rows, m, f) == IF Len(rows) = 0 THEN <<>> ELSE <<stringify(rows, m, f)>>

\* The chart effect on an aggregate.
chartEffect(ch, aggregated, dimension) ==
    IF Len(aggregated) = 0
    THEN IF ch.created
         THEN [created |-> TRUE, labels |-> <<"No data">>, data |-> <<Fin(0)>>,
               label |-> "No data", empty |-> TRUE]
         ELSE [ch EXCEPT !.empty = TRUE]
    ELSE [created |-> TRUE,
          labels |-> Map(aggregated, LAMBDA d : d.label),
          data |-> Map(aggregated, LAMBDA d : d.value),
          label |-> "Total by " \o dimension,
          empty |-> FALSE]

\* One commit of (rows, m, f) and the effects after it: the group effect,
\* the persist effect and the chart effect.
Effects(ch, rows, m, f) ==
    /\ dataRows' = rows
    /\ meta' = m
    /\ filters' = f
    /\ storage' = persist(rows, m, f)
    /\ \E aggregated \in aggregate(filteredRows(rows, m, f), groupDimension(m, f)) :
          chart' = chartEffect(ch, aggregated, groupDimension(m, f))

Commit(ch, rows, m, f) == Effects(ch, rows, m, groupEffect(m, f))

setStatusState(message, isError) == status' = [message |-> message, isError |-> isError]

Init ==
    /\ SessionIdle
    /\ PipelineIdle
    /\ QueryIdle

\* handleFileChange: a FileReader starts reading the chosen file
SelectFile(f) ==
    /\ f \notin reading
    /\ Cardinality(reading) < MaxPending
    /\ reading' = reading \cup {f}
    /\ UNCHANGED <<dataRows, meta, filters, status, storage, chart,
                   pipelineVars, queryVars>>

defaultGroup(detectedMeta) ==
    IF detectedMeta.branchKey # NoKey THEN "branch"
    ELSE IF detectedMeta.areaKey # NoKey THEN "area" ELSE "product"

loadedMessage(n, group) ==
    "Loaded " \o numToString(n) \o " rows. Grouping by " \o group \o "."

\* reader.onload reporting missing columns when either the metric key or the
\* product columns are missing
expandDetected_Either(table, detectedMeta) ==
    IF detectedMeta.metricKey = NoKey \/ Len(detectedMeta.productColumns) = 0
    THEN [outcome |-> "missing", meta |-> detectedMeta, rows |-> <<>>]
    ELSE [outcome |-> "loaded", meta |-> detectedMeta,
          rows |-> expandRows(table.rows, detectedMeta)]

\* What reader.onload computes from the text before it sets any state:
\* the outcome, the detected schema and the expanded records.
expandDetected(table, detectedMeta) ==
    IF detectedMeta.metricKey = NoKey /\ Len(detectedMeta.productColumns) = 0
    THEN [outcome |-> "missing", meta |-> detectedMeta, rows |-> <<>>]
    ELSE [outcome |-> "loaded", meta |-> detectedMeta,
          rows |-> expandRows(table.rows, detectedMeta)]

ingestTable(table) ==
    IF Len(table.rows) = 0
    THEN [outcome |-> "nodata", meta |-> defaultMeta, rows |-> <<>>]
    ELSE expandDetected(table, detectColumns(table.headers, table.rows, table.rawHeaders))

ingest == [f \in Files |-> ingestTable(parseCsv(f))]

\* reader.onload
Onload(f) ==
    /\ f \in reading
    /\ reading' = reading \ {f}
    /\ IF ingest[f].outcome = "nodata"
       THEN /\ setStatusState("Could not find data rows in this file.", TRUE)
            /\ UNCHANGED <<dataRows, meta, filters, storage, chart>>
       ELSE IF ingest[f].outcome = "missing"
       THEN /\ setStatusState("Missing required columns. Need at least one numeric column.",
                              TRUE)
            /\ UNCHANGED <<dataRows, meta, filters, storage, chart>>
       ELSE /\ Commit(chart, ingest[f].rows, ingest[f].meta,
                      [product |-> NoFilter, branch |-> NoFilter, area |-> NoFilter,
                       group |-> defaultGroup(ingest[f].meta)])
            /\ setStatusState(loadedMessage(Len(ingest[f].rows),
                                            defaultGroup(ingest[f].meta)), FALSE)
    /\ UNCHANGED <<pipelineVars, queryVars>>

\* reader.onerror
Onerror(f) ==
    /\ f \in reading
    /\ reading' = reading \ {f}
    /\ setStatusState("Unable to read the file.", TRUE)
    /\ UNCHANGED <<dataRows, meta, filters, storage, chart, pipelineVars, queryVars>>

\* resetApp without its setMeta(defaultMeta)
resetApp_KeepsMeta ==
    /\ Commit(chart, <<>>, meta, initialFilters)
    /\ setStatusState("Waiting for a CSV file.", FALSE)
    /\ UNCHANGED <<reading, pipelineVars, queryVars>>

resetApp ==
    /\ Commit(chart, <<>>, defaultMeta, initialFilters)
    /\ setStatusState("Waiting for a CSV file.", FALSE)
    /\ UNCHANGED <<reading, pipelineVars, queryVars>>

\* The selects' onChange handlers; a select offers its options when enabled.
SetProduct(v) ==
    /\ Len(productOptions(dataRows)) > 0
    /\ v \in {NoFilter} \cup Range(productOptions(dataRows))
    /\ Commit(chart, dataRows, meta, [filters EXCEPT !.product = v])
    /\ UNCHANGED <<status, reading, pipelineVars, queryVars>>

SetBranch(v) ==
    /\ meta.branchKey # NoKey
    /\ Len(branchOptions(dataRows, meta, filters)) > 0
    /\ v \in {NoFilter} \cup Range(branchOptions(dataRows, meta, filters))
    /\ Commit(chart, dataRows, meta, [filters EXCEPT !.branch = v])
    /\ UNCHANGED <<status, reading, pipelineVars, queryVars>>

\* the area select without the reset of the branch filter
SetArea_KeepsBranch(v) ==
    /\ meta.areaKey # NoKey
    /\ Len(areaOptions(dataRows, meta)) > 0
    /\ v \in {NoFilter} \cup Range(areaOptions(dataRows, meta))
    /\ Commit(chart, dataRows, meta, [filters EXCEPT !.area = v])
    /\ UNCHANGED <<status, reading, pipelineVars, queryVars>>

SetArea(v) ==
    /\ meta.areaKey # NoKey
    /\ Len(areaOptions(dataRows, meta)) > 0
    /\ v \in {NoFilter} \cup Range(areaOptions(dataRows, meta))
    /\ Commit(chart, dataRows, meta, [filters EXCEPT !.area = v, !.branch = NoFilter])
    /\ UNCHANGED <<status, reading, pipelineVars, queryVars>>

SetGroup(v) ==
    /\ v \in Range(groupOptions(meta))
    /\ Commit(chart, dataRows, meta, [filters EXCEPT !.group = v])
    /\ UNCHANGED <<status, reading, pipelineVars, queryVars>>

restoredMessage(n) == "Restored " \o numToString(n) \o " rows from last session."

\* A new session on the same slot: the component mounts with its initial
\* state and no Chart instance, the restore effect reads the slot, and the
\* effects run again on what it restored.  Reads in flight are gone.
Restore ==
    /\ reading' = {}
    /\ IF Len(storage) = 0
       THEN /\ Commit(noChart, <<>>, defaultMeta, initialFilters)
            /\ status' = initialStatus
       ELSE /\ Commit(noChart, storage[1].rows, storage[1].meta, storage[1].filters)
            /\ setStatusState(restoredMessage(Len(storage[1].rows)), FALSE)
    /\ UNCHANGED <<pipelineVars, queryVars>>

Next ==
    \/ \E f \in Files : SelectFile(f)
    \/ \E f \in Files : Onload(f)
    \/ \E f \in Files : Onerror(f)
    \/ resetApp
    \/ \E v \in {NoFilter} \cup Range(productOptions(dataRows)) : SetProduct(v)
    \/ \E v \in {NoFilter} \cup Range(branchOptions(dataRows, meta, filters)) : SetBranch(v)
    \/ \E v \in {NoFilter} \cup Range(areaOptions(dataRows, meta)) : SetArea(v)
    \/ \E v \in Range(groupOptions(meta)) : SetGroup(v)
    \/ Restore

Spec == Init /\ [][Next]_vars

----------------------------------------------------------------------------
(* Claims about the pipeline (checked under SpecPipeline).                 *)

Parsed == pc \in {"parsed", "detected", "expanded"}
Detected == pc \in {"detected", "expanded"}

\* C1: for every input text the table returned by parseCsv has headers that
\* are non-empty and pairwise distinct when compared case-insensitively,
\* rawHeaders is as long as headers, and every row's key set is exactly the
\* set of headers.
C1_ParsedTableWellFormed ==
    Parsed =>
        /\ \A i \in 1..Len(parsed.headers) : parsed.headers[i] # ""
        /\ \A i, j \in 1..Len(parsed.headers) :
               i # j => toLowerCase(parsed.headers[i]) # toLowerCase(parsed.headers[j])
        /\ Len(parsed.rawHeaders) = Len(parsed.headers)
        /\ \A k \in 1..Len(parsed.rows) :
               DOMAIN parsed.rows[k] = Range(parsed.headers)

\* The cells of the text's lines, as parseCsv splits them.
CellsOf(t) ==
    LET lines == textLines(t)
    IN Map(lines, LAMBDA l : splitCsvLine(l, detectDelimiter(lines)))

\* A line is texty when its cells holding a letter number at least 2 and at
\* least 0.3 times its cell count.
Texty(cells) ==
    LET n == Cardinality({k \in 1..Len(cells) : hasAlpha(cells[k])})
    IN n >= 2 /\ 10 * n >= 3 * Len(cells)

\* The header row is the first texty line or, when no line is texty, a widest line.
HeaderChoiceOk ==
    LET cells == CellsOf(text)
        h == headerIdx + 1
    IN Len(cells) > 0 =>
        IF \E i \in 1..Len(cells) : Texty(cells[i])
        THEN Texty(cells[h]) /\ \A i \in 1..(h - 1) : ~Texty(cells[i])
        ELSE \A i \in 1..Len(cells) : Len(cells[i]) <= Len(cells[h])

\* Row k of the table holds, under each of its keys, the cell of line
\* lineNo at the key's column ("" past the end of the line).
RowIsLine(k, lineNo) ==
    LET cells == CellsOf(text)[lineNo]
        row == parsed.rows[k]
    IN \A j \in 1..Len(parsed.headers) :
          parsed.headers[j] \in DOMAIN row =>
              row[parsed.headers[j]] = (IF j <= Len(cells) THEN cells[j] ELSE "")

\* C2: the header row is the first line, scanning from the top, with at
\* least max(2, ceil(0.3 * cell count)) cells holding a letter, else the
\* widest line; the data rows are exactly the lines after it that are not
\* blank in every cell, in order.
C2_RowsAreLinesWithContent ==
    Parsed =>
        /\ HeaderChoiceOk
        /\ LET cells == CellsOf(text)
               h == headerIdx + 1
               kept == SelectIdx(Len(cells), LAMBDA i :
                           i > h /\ \E c \in 1..Len(cells[i]) : trim(cells[i][c]) # "")
           IN Len(cells) > 0 =>
               /\ Len(parsed.rows) = Len(kept)
               /\ \A k \in 1..Len(kept) : RowIsLine(k, kept[k])

\* Witness of C2: a header found below a line that is not texty, with one
\* data line after it.
C2_Witness ==
    /\ Parsed
    /\ headerIdx = 1
    /\ Len(textLines(text)) = 3
    /\ Len(parsed.rows) = 1

\* C3: with product columns, expandRows emits for each row in order and each
\* product column in declared order one record: product = the column's name,
\* metric = the parsed value of the row's cell there, branch/area/item = the
\* trimmed row values at the resolved keys ("" when unset); rows * columns
\* records in all, whether or not productKey is set.
C3_WideExpansion ==
    (pc = "expanded" /\ Len(detected.productColumns) > 0) =>
        LET cols == detected.productColumns
            n == Len(cols)
            at(row, key) == IF key = NoKey THEN "" ELSE trim(cellOf(row, key))
        IN /\ Len(expanded) = Len(parsed.rows) * n
           /\ \A i \in 1..Len(parsed.rows) : \A j \in 1..n :
                LET rec == expanded[(i - 1) * n + j]
                    row == parsed.rows[i]
                IN /\ rec.product = cols[j]
                   /\ rec.metric = numeric(cellOf(row, cols[j]))
                   /\ ~looksNumeric(cellOf(row, cols[j])) => rec.metric = Fin(0)
                   /\ rec.branch = at(row, detected.branchKey)
                   /\ rec.area = at(row, detected.areaKey)
                   /\ rec.item = at(row, detected.itemKey)

\* Witness of C3: a wide expansion of two rows under a schema that also has a productKey.
C3_Witness ==
    /\ pc = "expanded"
    /\ detected.productKey # NoKey
    /\ Len(detected.productColumns) > 0
    /\ Len(parsed.rows) = 2
    /\ \E i \in 1..Len(expanded) : expanded[i].metric = Fin(10)

\* C10: syntheticProduct is true exactly when productKey is unset and
\* productColumns is empty; then syntheticProductLabel is the first trimmed
\* non-empty raw header with no denylisted substring, else the resolved
\* metric key when there is one, else "All Products".
C10_SyntheticLabel ==
    Detected =>
        LET survivors == Filter(Filter(Map(detected.rawHeaders, trim), LAMBDA h : h # ""),
                                LAMBDA h : \A b \in banned : ~includes(toLowerCase(h), b))
        IN /\ detected.syntheticProduct <=>
                (detected.productKey = NoKey /\ Len(detected.productColumns) = 0)
           /\ detected.syntheticProduct =>
                detected.syntheticProductLabel =
                    (IF Len(survivors) > 0 THEN survivors[1]
                     ELSE IF detected.metricKey # NoKey THEN detected.metricKey
                     ELSE "All Products")

----------------------------------------------------------------------------
(* Claims about filtering (checked under SpecQuery).                       *)

\* C5: a record passes filtering exactly when its product equals the product
\* filter or that filter is "no constraint", and the schema has no branchKey
\* or the branch filter is "no constraint" or its branch equals the branch
\* filter, and likewise for area; with branchKey (areaKey) unset no value of
\* the branch (area) filter rejects a record.
C5_FilterPredicate ==
    Len(qOut) = 1 =>
        LET rows == qIn[1].rows
            m == qIn[1].meta
            f == qIn[1].filters
            productOk(r) == f.product = NoFilter \/ r.product = f.product
            branchOk(r) == m.branchKey = NoKey \/ f.branch = NoFilter \/ r.branch = f.branch
            areaOk(r) == m.areaKey = NoKey \/ f.area = NoFilter \/ r.area = f.area
            kept == SelectIdx(Len(rows), LAMBDA i :
                        productOk(rows[i]) /\ branchOk(rows[i]) /\ areaOk(rows[i]))
            keptUnkeyed == SelectIdx(Len(rows), LAMBDA i : productOk(rows[i]))
        IN /\ qOut[1] = [k \in 1..Len(kept) |-> rows[kept[k]]]
           /\ (m.branchKey = NoKey /\ m.areaKey = NoKey) =>
                 qOut[1] = [k \in 1..Len(keptUnkeyed) |-> rows[keptUnkeyed[k]]]

\* Witness of C5: a branch filter that matches no record, under a schema
\* without branchKey, rejects nothing.
C5_Witness ==
    /\ Len(qOut) = 1
    /\ qIn[1].meta.branchKey = NoKey
    /\ qIn[1].filters.branch = "West"
    /\ qIn[1].filters.product = NoFilter
    /\ qIn[1].filters.area = NoFilter
    /\ Len(qIn[1].rows) = 2
    /\ qOut[1] = qIn[1].rows

----------------------------------------------------------------------------
(* Claims about the session (checked under Spec).                          *)

MissingColumnsSaid(st) ==
    st.message = "Missing required columns. Need at least one numeric column."

NoDataSaid(st) == st.message = "Could not find data rows in this file."

\* C4: an ingestion of a table with a data row reports "missing required
\* columns" exactly when the inferred schema has no metricKey and no
\* productColumns; on that report or on "no data rows" the records, schema and
\* filters stay as they were, and otherwise a non-empty record list is installed.
C4_MissingColumnsReported ==
    [][\A f \in Files : Onload(f) =>
          LET table == parseCsv(f)
              d == IF Len(table.rows) > 0
                   THEN detectColumns(table.headers, table.rows, table.rawHeaders)
                   ELSE defaultMeta
          IN /\ Len(table.rows) > 0 =>
                  (MissingColumnsSaid(status') <=>
                      (d.metricKey = NoKey /\ Len(d.productColumns) = 0))
             /\ (MissingColumnsSaid(status') \/ NoDataSaid(status')) =>
                  UNCHANGED <<dataRows, meta, filters>>
             /\ ~(MissingColumnsSaid(status') \/ NoDataSaid(status')) =>
                  Len(dataRows') > 0]_vars

\* Witness of C4: "missing required columns" reported over records that an
\* earlier ingestion installed.
C4_Witness ==
    /\ MissingColumnsSaid(status)
    /\ Len(dataRows) > 0

Surviving == filteredRows(dataRows, meta, filters)

\* the metrics of the records with a label, in record order
MetricsOf(rows, key, label) ==
    Map(Filter(rows, LAMBDA r : labelOf(r, key) = label), LAMBDA r : r.metric)

\* the sum of metrics, left to right
RECURSIVE SumOf(_, _)
SumOf(ms, acc) == IF Len(ms) = 0 THEN acc ELSE SumOf(Tail(ms), jsAdd(acc, Head(ms)))

\* the same sum with a running total of NaN starting again from 0
RECURSIVE RunningTotal(_, _)
RunningTotal(ms, acc) ==
    IF Len(ms) = 0 THEN acc
    ELSE RunningTotal(Tail(ms), jsAdd(IF acc.kind = "nan" THEN Fin(0) ELSE acc, Head(ms)))

\* The chart shows one bar per label of the surviving records along a
\* dimension, each with a total computed by Total.
ChartGroups(dimension, Total(_)) ==
    /\ Len(chart.labels) = Len(chart.data)
    /\ Range(chart.labels) = {labelOf(Surviving[i], dimension) : i \in 1..Len(Surviving)}
    /\ \A i, j \in 1..Len(chart.labels) : chart.labels[i] = chart.labels[j] => i = j
    /\ \A i \in 1..Len(chart.labels) :
          /\ chart.labels[i] # ""
          /\ chart.data[i] = Total(MetricsOf(Surviving, dimension, chart.labels[i]))

\* C6 as stated: the aggregate handed to the chart groups the surviving
\* records by the dimension selected in the filters, with "Unspecified" for an
\* empty value, each total being the sum of the group's metrics.
C6_GroupsBySelectedDimension ==
    Len(Surviving) > 0 => ChartGroups(filters.group, LAMBDA ms : SumOf(ms, Fin(0)))

\* C6 amended: the aggregate handed to the chart groups the surviving records
\* by product when the schema has a branchKey and a branch filter is set, and
\* otherwise by the dimension selected in the filters, with "Unspecified" for
\* an empty value; each total is the sum of the group's metrics, a missing
\* metric counting as 0 and a running total of NaN starting again from 0.
C6_GroupsByEffectiveDimension ==
    Len(Surviving) > 0 =>
        LET dimension == IF meta.branchKey # NoKey /\ filters.branch # NoFilter
                         THEN "product" ELSE filters.group
        IN /\ chart.label = "Total by " \o dimension
           /\ ChartGroups(dimension, LAMBDA ms : RunningTotal(ms, Fin(0)))

\* Witness of C6: grouping by branch is selected and a branch filter is set,
\* and the chart shows the totals by product of that branch.
C6_Witness ==
    /\ filters.group = "branch"
    /\ filters.branch = "East"
    /\ chart.labels = <<"Backribs", "Spareribs">>
    /\ chart.data = <<Fin(10), Fin(5)>>

\* a >= b on totals; no comparison with NaN holds
Geq(a, b) ==
    /\ a.kind # "nan" /\ b.kind # "nan"
    /\ IF a.kind = "inf" THEN a.v = 1 \/ b = a
       ELSE IF b.kind = "inf" THEN b.v = -1
       ELSE a.v >= b.v

FirstIndex(rows, key, label) ==
    firstOr(SelectIdx(Len(rows), LAMBDA i : labelOf(rows[i], key) = label), 0)

\* C7: the output of aggregate is ordered by total descending, groups with
\* equal totals in the order their labels were first met in the records, and
\* aggregating the same records by the same dimension again gives the same
\* sequence.
C7_SortedDescending ==
    Len(Surviving) > 0 =>
        /\ \A i, j \in 1..Len(chart.data) : i < j =>
              /\ Geq(chart.data[i], chart.data[j])
              /\ chart.data[i] = chart.data[j] =>
                    FirstIndex(Surviving, groupDimension(meta, filters), chart.labels[i])
                      < FirstIndex(Surviving, groupDimension(meta, filters), chart.labels[j])
        /\ Cardinality(aggregate(Surviving, groupDimension(meta, filters))) = 1

\* a session that came about by one ingestion, as ingested or as restored
FromIngestion(rows, m) ==
    \E f \in Files :
        /\ ingest[f].outcome = "loaded"
        /\ m = ingest[f].meta
        /\ rows \in {ingest[f].rows, Map(ingest[f].rows, jsonRecord)}

FreshFilters(m) ==
    [product |-> NoFilter, branch |-> NoFilter, area |-> NoFilter,
     group |-> defaultGroup(m)]

TripleConsistent ==
    /\ \/ dataRows = <<>> /\ meta = defaultMeta /\ filters = initialFilters
       \/ /\ FromIngestion(dataRows, meta)
          /\ filters.product \in {NoFilter} \cup {dataRows[i].product : i \in 1..Len(dataRows)}
          /\ filters.branch \in {NoFilter} \cup {dataRows[i].branch : i \in 1..Len(dataRows)}
          /\ filters.area \in {NoFilter} \cup {dataRows[i].area : i \in 1..Len(dataRows)}
          /\ filters.group \in Range(groupOptions(meta))
    /\ storage = persist(dataRows, meta, filters)

ReplacedTogether ==
    (dataRows' # dataRows \/ meta' # meta) =>
        \/ filters' = FreshFilters(meta') /\ Len(dataRows') = 0 /\ meta' = defaultMeta
        \/ filters' = FreshFilters(meta') /\ FromIngestion(dataRows', meta')
        \/ /\ Len(storage) = 1
           /\ dataRows' = storage[1].rows
           /\ meta' = storage[1].meta
           /\ filters' = storage[1].filters

\* C8: on every successful ingestion, reset and restore the records, schema
\* and filters are replaced together: in every state the three come from one
\* ingestion (or are the empty session), the persisted slot holds exactly
\* them, and a step that changes the records or the schema sets all three.
C8_ReplacedTogether == []TripleConsistent /\ [][ReplacedTogether]_vars

\* Witness of C8: a session restored from the slot with a filter set, while
\* another file is being read.
C8_Witness ==
    /\ status.message = restoredMessage(6)
    /\ filters.area = "N"
    /\ Len(storage) = 1
    /\ Cardinality(reading) = 1

\* C9: after an ingestion and filter changes the persisted slot holds the
\* current records, schema and filters; a new session restores the same three,
\* the aggregate in the chart after the restore is the one before it, and the
\* slot still holds them after the startup effects.
C9_RoundTrip ==
    [][(Restore /\ Len(dataRows) > 0) =>
          /\ Len(storage) = 1
          /\ dataRows' = dataRows
          /\ meta' = meta
          /\ filters' = filters
          /\ chart'.labels = chart.labels
          /\ chart'.data = chart.data
          /\ storage' = storage]_vars

----------------------------------------------------------------------------
(* Claims about the product columns (checked under SpecPipeline).          *)

RoleKeys(d) == {d.productKey, d.branchKey, d.areaKey, d.itemKey} \ {NoKey}

\* the headers at positions 3 to 7 that are fixed product names
FixedBand(hs) == Filter(slice(hs, 2, 7), LAMBDA h : toLowerCase(h) \in fixedProducts)

\* the headers with a numeric cell in some row that are no role key
UnclaimedNumeric(d) ==
    Filter(d.headers, LAMBDA h :
        /\ \E i \in 1..Len(parsed.rows) : looksNumeric(cellOf(parsed.rows[i], h))
        /\ \A k \in RoleKeys(d) : toLowerCase(h) # toLowerCase(k))

\* C11 as stated: the productColumns returned by detectColumns contain no
\* header that it resolved as productKey, branchKey, areaKey or itemKey.
C11_NoRoleColumn ==
    Detected =>
        \A j \in 1..Len(detected.productColumns) :
            detected.productColumns[j] \notin RoleKeys(detected)

\* C11 amended: when no header at positions 3 to 7 is a fixed product name and
\* some numeric header is not a role key, productColumns is the numeric
\* headers that are no role key and so contains no header resolved as
\* productKey, branchKey, areaKey or itemKey; a fixed product name at
\* positions 3 to 7 makes productColumns those headers, and without one and
\* without an unclaimed numeric header three or more headers make it the
\* headers at positions 3 to 7, role keys included in both cases.
C11_RoleColumnsOnlyByPosition ==
    Detected =>
        IF Len(FixedBand(detected.headers)) > 0
        THEN detected.productColumns = FixedBand(detected.headers)
        ELSE IF Len(UnclaimedNumeric(detected)) > 0
        THEN /\ detected.productColumns = UnclaimedNumeric(detected)
             /\ \A j \in 1..Len(detected.productColumns) :
                   detected.productColumns[j] \notin RoleKeys(detected)
        ELSE IF Len(detected.headers) >= 3
        THEN detected.productColumns = slice(detected.headers, 2, 7)
        ELSE detected.productColumns = <<>>

\* Witness of C11: the branch column has a numeric cell and is kept out of
\* the product columns, which are the other numeric header.
C11_Witness ==
    /\ Detected
    /\ detected.branchKey = "Branch"
    /\ \E i \in 1..Len(parsed.rows) : looksNumeric(cellOf(parsed.rows[i], "Branch"))
    /\ detected.productColumns = <<"Qty">>

----------------------------------------------------------------------------
(* Claims about the filters and the offered options (checked under Spec).  *)

FiltersOffered ==
    /\ \/ filters.product = NoFilter
       \/ filters.product # "" /\ \E i \in 1..Len(dataRows) :
              dataRows[i].product = filters.product
    /\ \/ filters.area = NoFilter
       \/ filters.area # "" /\ \E i \in 1..Len(dataRows) : dataRows[i].area = filters.area
    /\ \/ filters.branch = NoFilter
       \/ filters.branch # "" /\ \E i \in 1..Len(dataRows) :
              /\ dataRows[i].branch = filters.branch
              /\ filters.area = NoFilter \/ dataRows[i].area = filters.area

\* C12: in every state reached by successful or failed ingestions, resets,
\* restores and selections of offered options, each filter is "no constraint"
\* or a value offered for its dimension: a product of some record, an area of
\* some record, a branch of some record within the selected area; a step that
\* changes the area filter leaves the branch filter at "no constraint".
C12_FiltersAreOffered ==
    /\ []FiltersOffered
    /\ [][filters'.area # filters.area => filters'.branch = NoFilter]_vars

\* Witness of C12: a product, an area and a branch of that area are selected
\* together.
C12_Witness ==
    /\ filters.product = "Backribs"
    /\ filters.area = "N"
    /\ filters.branch = "West"

====
